---------------------------- MODULE Spec2Model ----------------------------
(***************************************************************************)
(* Model of the glossary generator (.github/workflows/glossario_parser.lua)*)
(* and of the navigation script (website/script.js).                       *)
(*                                                                         *)
(* Text is a sequence of one-character strings, so that the Lua patterns   *)
(* are modelled character by character.                                    *)
(***************************************************************************)
EXTENDS Naturals, Integers, Sequences, FiniteSets, TLC

VARIABLES
    cv_text,      \* convert_latex_to_html: the argument `text`
    cv_out,       \* convert_latex_to_html: the returned text
    cv_pc,        \* "ready" before the call, "done" after it
    content,      \* parse_terms: the argument `content`
    terms,        \* parse_terms: the returned table
    pt_pc,        \* "ready" before the call, "done" after it
    glossary,     \* generate_html: the argument `all_terms`
    html,         \* generate_html: the table `html` that is concatenated
    gh_pc,        \* "ready" before the call, "done" after it
    pc,           \* main: position of the run
    idx,          \* main: index in LETTERS of the letter being processed
    all_terms,    \* main: local all_terms
    tot_terms,    \* main: local tot_terms
    console,      \* main: what print() has written
    out_file,     \* the file at OUTPUT_FILE
    failed,       \* main: error() was raised
    files_read,   \* main: how many read_file calls returned a content
    nav,          \* script.js: the hrefs of the links in #nav-navigation
    active,       \* script.js: indices of the links that carry class "active"
    last_event    \* script.js: the last event handled

vars == <<cv_text, cv_out, cv_pc, content, terms, pt_pc, glossary, html, gh_pc,
          pc, idx, all_terms, tot_terms, console, out_file, failed, files_read,
          nav, active, last_event>>

conv_vars == <<cv_text, cv_out, cv_pc>>
parse_vars == <<content, terms, pt_pc>>
render_vars == <<glossary, html, gh_pc>>
main_vars == <<pc, idx, all_terms, tot_terms, console, out_file, failed, files_read>>
nav_vars == <<nav, active, last_event>>

-----------------------------------------------------------------------------
(* Bounds of the explored inputs.                                          *)

MaxConvPieces == 3
MaxLines == 3
MaxBuckets == 2
MaxFiles == 2
MaxBatch == 2
MaxLinks == 3

-----------------------------------------------------------------------------
(* Generic helpers on sequences.                                           *)

RECURSIVE Flatten(_)
Flatten(ss) == IF ss = <<>> THEN <<>> ELSE Head(ss) \o Flatten(Tail(ss))

Range(s) == {s[i] : i \in DOMAIN s}

\* all sequences over S of length 0..n
RECURSIVE SeqsUpTo(_, _)
SeqsUpTo(S, n) ==
    IF n = 0 THEN {<<>>}
    ELSE LET shorter == SeqsUpTo(S, n - 1)
         IN  shorter \cup {Append(s, x) : s \in {t \in shorter : Len(t) = n - 1}, x \in S}

\* t[s..] starts with the literal lit
StartsWith(t, s, lit) ==
    /\ s + Len(lit) - 1 <= Len(t)
    /\ \A k \in 1..Len(lit) : t[s + k - 1] = lit[k]

\* number of characters from position s on that satisfy the class (greedy run)
RECURSIVE RunLen(_, _, _)
RunLen(t, s, class) ==
    IF s <= Len(t) /\ t[s] \in class THEN 1 + RunLen(t, s + 1, class) ELSE 0

RECURSIVE RunLenNot(_, _, _)
RunLenNot(t, s, class) ==
    IF s <= Len(t) /\ t[s] \notin class THEN 1 + RunLenNot(t, s + 1, class) ELSE 0

Count(t, c) == Cardinality({i \in DOMAIN t : t[i] = c})

\* a Lua table with no key
EmptyTable == [u \in {} |-> <<>>]

-----------------------------------------------------------------------------
(* convert_latex_to_html                                                   *)

TEXTIT == <<"\\", "t", "e", "x", "t", "i", "t", "{">>
I_OPEN == <<"<", "i", ">">>
I_CLOSE == <<"<", "/", "i", ">">>
AMP == <<"&", "a", "m", "p", ";">>
LT == <<"&", "l", "t", ";">>
GT == <<"&", "g", "t", ";">>
QUOT == <<"&", "q", "u", "o", "t", ";">>
APOS == <<"&", "#", "3", "9", ";">>

\* length of the match of "\\textit%{([^}]+)%}" at position s, 0 if none
TextitMatch(t, s) ==
    IF StartsWith(t, s, TEXTIT)
    THEN LET n == RunLenNot(t, s + Len(TEXTIT), {"}"})
             close == s + Len(TEXTIT) + n
         IN  IF n >= 1 /\ close <= Len(t) /\ t[close] = "}"
             THEN Len(TEXTIT) + n + 1 ELSE 0
    ELSE 0

\* text:gsub("\\textit%{([^}]+)%}", function(content) return "<i>"..content.."</i>" end)
RECURSIVE ExpandTextit(_, _)
ExpandTextit(t, s) ==
    IF s > Len(t) THEN <<>>
    ELSE LET m == TextitMatch(t, s)
         IN  IF m > 0
             THEN I_OPEN \o SubSeq(t, s + Len(TEXTIT), s + m - 2) \o I_CLOSE
                    \o ExpandTextit(t, s + m)
             ELSE <<t[s]>> \o ExpandTextit(t, s + 1)

\* text:gsub(c, repl) for a one-character plain pattern
RECURSIVE ReplaceChar(_, _, _)
ReplaceChar(t, c, repl) ==
    IF t = <<>> THEN <<>>
    ELSE (IF Head(t) = c THEN repl ELSE <<Head(t)>>) \o ReplaceChar(Tail(t), c, repl)

\* text:gsub("<([^i/])", "&lt;%1")
RECURSIVE EscapeLtBefore(_, _)
EscapeLtBefore(t, s) ==
    IF s > Len(t) THEN <<>>
    ELSE IF t[s] = "<" /\ s + 1 <= Len(t) /\ t[s + 1] \notin {"i", "/"}
         THEN LT \o <<t[s + 1]>> \o EscapeLtBefore(t, s + 2)
         ELSE <<t[s]>> \o EscapeLtBefore(t, s + 1)

\* text:gsub("<$", "&lt;")
EscapeLtAtEnd(t) ==
    IF t # <<>> /\ t[Len(t)] = "<" THEN SubSeq(t, 1, Len(t) - 1) \o LT ELSE t

\* text:gsub("([^i])>", "%1&gt;")
RECURSIVE EscapeGtAfter(_, _)
EscapeGtAfter(t, s) ==
    IF s > Len(t) THEN <<>>
    ELSE IF t[s] # "i" /\ s + 1 <= Len(t) /\ t[s + 1] = ">"
         THEN <<t[s]>> \o GT \o EscapeGtAfter(t, s + 2)
         ELSE <<t[s]>> \o EscapeGtAfter(t, s + 1)

\* text:gsub("^>", "&gt;")
EscapeGtAtStart(t) ==
    IF t # <<>> /\ t[1] = ">" THEN GT \o Tail(t) ELSE t

convert_latex_to_html(text) ==
    LET t1 == ExpandTextit(text, 1)
        t2 == ReplaceChar(t1, "&", AMP)
        t3 == EscapeLtBefore(t2, 1)
        t4 == EscapeLtAtEnd(t3)
        t5 == EscapeGtAfter(t4, 1)
        t6 == EscapeGtAtStart(t5)
        t7 == ReplaceChar(t6, "\"", QUOT)
        t8 == ReplaceChar(t7, "'", APOS)
    IN  t8

ConvPieces == {TEXTIT, <<"}">>, <<"<">>, <<">">>, <<"i">>, <<"/">>, <<"&">>,
               <<"\"">>, <<"'">>, <<"a">>}

ConvInputs == {Flatten(ps) : ps \in SeqsUpTo(ConvPieces, MaxConvPieces)}


-----------------------------------------------------------------------------
(* parse_terms                                                             *)

TERM == <<"\\", "t", "e", "r", "m", "{">>

\* the class %s (isspace in the C locale; the vertical tab is not in the
\* explored alphabet)
Space == {" ", "\t", "\n", "\r", "\f"}

NoMatch == [len |-> 0, term |-> <<>>, definition |-> <<>>]

SetMax(S) == CHOOSE x \in S : \A y \in S : y <= x

\* the match of "\\term%{([^}]+)%}%s*([^\n]+)" at position s: its length and
\* its two captures, NoMatch if there is none.  %s* is greedy and gives
\* characters back until [^\n]+ finds one character to take.
TermMatch(t, s) ==
    IF ~StartsWith(t, s, TERM) THEN NoMatch
    ELSE LET a == s + Len(TERM)
             n == RunLenNot(t, a, {"}"})
             close == a + n
         IN  IF ~(n >= 1 /\ close <= Len(t) /\ t[close] = "}") THEN NoMatch
             ELSE LET p == close + 1
                      k == RunLen(t, p, Space)
                      J == {j \in 0..k : RunLenNot(t, p + j, {"\n"}) >= 1}
                  IN  IF J = {} THEN NoMatch
                      ELSE LET j == SetMax(J)
                               d == RunLenNot(t, p + j, {"\n"})
                           IN  [len |-> (p + j + d) - s,
                                term |-> SubSeq(t, a, close - 1),
                                definition |-> SubSeq(t, p + j, p + j + d - 1)]

\* s:match("^%s*(.-)%s*$")
Trim(t) ==
    LET lead == RunLen(t, 1, Space)
        Trailing == {k \in 0..(Len(t) - lead) :
                        \A i \in (Len(t) - k + 1)..Len(t) : t[i] \in Space}
    IN  SubSeq(t, lead + 1, Len(t) - SetMax(Trailing))

\* the body of the gmatch loop: the entry inserted for one match, if any
EntryUntrimmed(m) == <<[term |-> m.term, definition |-> m.definition]>>

Entry(m) ==
    LET term == Trim(m.term)
        definition == Trim(m.definition)
    IN  IF term # <<>> /\ definition # <<>>
        THEN <<[term |-> term, definition |-> definition]>>
        ELSE <<>>

\* the gmatch loop: the table `terms` before it is sorted
RECURSIVE CollectTerms(_, _)
CollectTerms(t, s) ==
    IF s > Len(t) THEN <<>>
    ELSE LET m == TermMatch(t, s)
         IN  IF m.len > 0
             THEN Entry(m) \o CollectTerms(t, s + m.len)
             ELSE CollectTerms(t, s + 1)

\* the byte of a character (strings compare byte by byte in the C locale)
CharCode(c) ==
    CASE c = "\t" -> 9  [] c = "\n" -> 10 [] c = " " -> 32
      [] c = "\"" -> 34 [] c = "&" -> 38  [] c = "'" -> 39
      [] c = "/" -> 47  [] c = "<" -> 60  [] c = ">" -> 62
      [] c = "A" -> 65  [] c = "B" -> 66  [] c = "Z" -> 90
      [] c = "\\" -> 92
      [] c = "a" -> 97  [] c = "b" -> 98  [] c = "e" -> 101
      [] c = "i" -> 105 [] c = "m" -> 109 [] c = "r" -> 114
      [] c = "t" -> 116 [] c = "w" -> 119 [] c = "x" -> 120
      [] c = "y" -> 121 [] c = "z" -> 122 [] c = "{" -> 123
      [] c = "}" -> 125

\* string.lower on one character
LowerChar(c) ==
    CASE c = "A" -> "a" [] c = "B" -> "b" [] c = "Z" -> "z" [] OTHER -> c

Lower(t) == [i \in DOMAIN t |-> LowerChar(t[i])]

\* the string comparison a < b
RECURSIVE StrLess(_, _)
StrLess(a, b) ==
    IF b = <<>> THEN FALSE
    ELSE IF a = <<>> THEN TRUE
    ELSE IF CharCode(Head(a)) # CharCode(Head(b))
         THEN CharCode(Head(a)) < CharCode(Head(b))
         ELSE StrLess(Tail(a), Tail(b))

\* the order function given to table.sort
TermBeforeCaseSensitive(a, b) == StrLess(a.term, b.term)

TermBefore(a, b) == StrLess(Lower(a.term), Lower(b.term))

IsSortedBy(s) == \A i, j \in DOMAIN s : i < j => ~TermBefore(s[j], s[i])

Permute(s, p) == [i \in DOMAIN s |-> s[p[i]]]

Bijections(n) == {p \in [1..n -> 1..n] : \A i, j \in 1..n : p[i] = p[j] => i = j}

\* table.sort(terms, order): the algorithm is not stable, so the result is any
\* arrangement of the entries that the order function accepts as sorted
SortOutcomes(s) ==
    {r \in {Permute(s, p) : p \in Bijections(Len(s))} : IsSortedBy(r)}

parse_terms_outcomes(text) == SortOutcomes(CollectTerms(text, 1))

TermTexts == {<<"B">>, <<"b">>, <<" ", "a", " ">>, <<" ">>}
LineTails == {<<"x", "\n">>, <<" ", "y", " ", "\n">>, <<"\n">>, <<" ">>}
PlainLines == {<<"w", "\n">>}

ParseLines ==
    {TERM \o tt \o <<"}">> \o tail : tt \in TermTexts, tail \in LineTails}
        \cup PlainLines

ParseInputs == {Flatten(ls) : ls \in SeqsUpTo(ParseLines, MaxLines)}

-----------------------------------------------------------------------------
(* Specification of one call of convert_latex_to_html.                     *)

IdleConv == cv_text = <<>> /\ cv_out = <<>> /\ cv_pc = "idle"
IdleParse == content = <<>> /\ terms = <<>> /\ pt_pc = "idle"
IdleRender == glossary = EmptyTable /\ html = <<>> /\ gh_pc = "idle"
IdleMain ==
    /\ pc = "idle" /\ idx = 0 /\ all_terms = EmptyTable /\ tot_terms = 0
    /\ console = <<>> /\ out_file = <<>> /\ failed = FALSE /\ files_read = 0
IdleNav == nav = <<>> /\ active = {} /\ last_event = <<>>

ConvInit ==
    /\ cv_text \in ConvInputs /\ cv_out = <<>> /\ cv_pc = "ready"
    /\ IdleParse /\ IdleRender /\ IdleMain /\ IdleNav

Convert ==
    /\ cv_pc = "ready"
    /\ cv_out' = convert_latex_to_html(cv_text)
    /\ cv_pc' = "done"
    /\ UNCHANGED <<cv_text, parse_vars, render_vars, main_vars, nav_vars>>

ConvNext == Convert

SpecConv == ConvInit /\ [][ConvNext]_vars

-----------------------------------------------------------------------------
(* Specification of one call of parse_terms.                               *)

ParseInit ==
    /\ content \in ParseInputs /\ terms = <<>> /\ pt_pc = "ready"
    /\ IdleConv /\ IdleRender /\ IdleMain /\ IdleNav

ParseTerms ==
    /\ pt_pc = "ready"
    /\ terms' \in parse_terms_outcomes(content)
    /\ pt_pc' = "done"
    /\ UNCHANGED <<content, conv_vars, render_vars, main_vars, nav_vars>>

ParseNext == ParseTerms

SpecParse == ParseInit /\ [][ParseNext]_vars

-----------------------------------------------------------------------------
(* generate_html                                                           *)
(*                                                                         *)
(* The table `html` is a sequence of chunks; a chunk is the sequence of    *)
(* the fragments that string.format joins: the pieces of the format string *)
(* as strings, a %s argument as the letter or as the characters of the     *)
(* converted text.                                                         *)

LETTERS == <<"a", "b", "c", "d", "e", "f", "g", "h", "i", "j", "k", "l", "m",
             "n", "o", "p", "q", "r", "s", "t", "u", "v", "w", "x", "y", "z">>

UPPERS == <<"A", "B", "C", "D", "E", "F", "G", "H", "I", "J", "K", "L", "M",
            "N", "O", "P", "Q", "R", "S", "T", "U", "V", "W", "X", "Y", "Z">>

\* letter:upper()
Upper(letter) == UPPERS[CHOOSE i \in DOMAIN LETTERS : LETTERS[i] = letter]

HTML_HEAD == <<"  <!DOCTYPE html>\n<html>\n<head>\n    <meta charset=\"UTF-8\">\n    <title>Glossario</title>\n\t<link rel=\"icon\" href=\"../images/logo.png\" type=\"image/x-icon\">\n   <link rel=\"stylesheet\" href=\"../styles.css\">\n   <link rel=\"stylesheet\" href=\"glossario.css\">\n   <script src=\"../script.js\" defer></script>\n    </head>\n<body>\n  <header>\n    <nav aria-label=\"Navigazione principale\">\n    <ul id=\"nav-navigation\">\n  ">>

HTML_MAIN == <<"        </nav>\n\t\t\t\t</header>\n\t\t\t\n\t\t\t\t<main>\n\t\t\t\t<a href=\"../../index.html\" id=\"home\">Home</a>\n\n">>

HTML_END == <<"</body>\n</html>">>

LI_OPEN == "            <li><a href=\"#"
LI_MID == "\">"
LI_CLOSE == "</a></li>\n"
SECTION_OPEN == "    <section id=\""
SECTION_ID_END == "\">\n"
H2_OPEN == "\t<h2>"
H2_CLOSE == "</h2>\n"
DL_OPEN == "\t  <dl>\n"
DT_OPEN == "\t      <dt>"
DT_CLOSE == "</dt>\n"
DD_OPEN == "\t      <dd>"
DD_CLOSE == "</dd>\n\n"
DL_CLOSE == "        </dl>\n"
SECTION_CLOSE == "    </section>\n\n"

\* string.format('            <li><a href="#%s">%s</a></li>\n', letter, upper)
NavItemSwapped(letter) == <<LI_OPEN, Upper(letter), LI_MID, letter, LI_CLOSE>>

NavItem(letter) == <<LI_OPEN, letter, LI_MID, Upper(letter), LI_CLOSE>>

\* the condition of the navigation loop
InNavAlways(t, letter) == TRUE

InNav(t, letter) == Upper(letter) \in DOMAIN t /\ Len(t[Upper(letter)]) > 0

\* the first loop over LETTERS
RECURSIVE NavChunks(_, _)
NavChunks(t, i) ==
    IF i > Len(LETTERS) THEN <<>>
    ELSE (IF InNav(t, LETTERS[i]) THEN <<NavItem(LETTERS[i])>> ELSE <<>>)
            \o NavChunks(t, i + 1)

\* the inner loop over all_terms[upper]
RECURSIVE TermChunks(_)
TermChunks(bucket) ==
    IF bucket = <<>> THEN <<>>
    ELSE << <<DT_OPEN>> \o convert_latex_to_html(Head(bucket).term) \o <<DT_CLOSE>>,
            <<DD_OPEN>> \o convert_latex_to_html(Head(bucket).definition) \o <<DD_CLOSE>> >>
            \o TermChunks(Tail(bucket))

\* the body of the second loop over LETTERS, for one letter
SectionChunksOnlyPresent(t, letter) ==
    IF Upper(letter) \in DOMAIN t
    THEN << <<SECTION_OPEN, letter, SECTION_ID_END>>,
            <<H2_OPEN, Upper(letter), H2_CLOSE>>, <<DL_OPEN>> >>
            \o TermChunks(t[Upper(letter)]) \o << <<DL_CLOSE>>, <<SECTION_CLOSE>> >>
    ELSE <<>>

SectionChunks(t, letter) ==
    << <<SECTION_OPEN, letter, SECTION_ID_END>>,
       <<H2_OPEN, Upper(letter), H2_CLOSE>> >>
    \o (IF Upper(letter) \in DOMAIN t
        THEN << <<DL_OPEN>> >> \o TermChunks(t[Upper(letter)]) \o << <<DL_CLOSE>> >>
        ELSE <<>>)
    \o << <<SECTION_CLOSE>> >>

RECURSIVE AllSections(_, _)
AllSections(t, i) ==
    IF i > Len(LETTERS) THEN <<>>
    ELSE SectionChunks(t, LETTERS[i]) \o AllSections(t, i + 1)

\* the table `html` when generate_html returns
html_table(t) ==
    <<HTML_HEAD>> \o NavChunks(t, 1) \o <<HTML_MAIN>> \o AllSections(t, 1) \o <<HTML_END>>

\* table.concat(html)
generate_html(t) == Flatten(html_table(t))

\* Glossaries as main builds them: a bucket per letter that has terms, each
\* bucket sorted by the order function
EntryA == [term |-> <<"a">>, definition |-> <<"<">>]
EntryB == [term |-> <<"B">>, definition |-> TEXTIT \o <<"x", "}">>]

RenderBuckets ==
    {b \in {<<EntryA>>, <<EntryA, EntryB>>, <<EntryB, EntryA>>} : IsSortedBy(b)}

\* the subsets of S with at most n elements
RECURSIVE SubsetsUpTo(_, _)
SubsetsUpTo(S, n) ==
    IF n = 0 THEN {{}}
    ELSE LET smaller == SubsetsUpTo(S, n - 1)
         IN  smaller \cup {k \cup {x} : k \in smaller, x \in S}

Glossaries ==
    UNION {[keys -> RenderBuckets] : keys \in SubsetsUpTo(Range(UPPERS), MaxBuckets)}

-----------------------------------------------------------------------------
(* Specification of one call of generate_html.                             *)

RenderInit ==
    /\ glossary \in Glossaries /\ html = <<>> /\ gh_pc = "ready"
    /\ IdleConv /\ IdleParse /\ IdleMain /\ IdleNav

GenerateHtml ==
    /\ gh_pc = "ready"
    /\ html' = html_table(glossary)
    /\ gh_pc' = "done"
    /\ UNCHANGED <<glossary, conv_vars, parse_vars, main_vars, nav_vars>>

RenderNext == GenerateHtml

SpecRender == RenderInit /\ [][RenderNext]_vars

-----------------------------------------------------------------------------
(* main, read_file, write_file                                             *)

NO_TERMS == "Nessun termine trovato"
PARSING_DONE == "Parsing terminato"

\* the file at OUTPUT_FILE before the run: none, or the output of an earlier run
NoFile == [exists |-> FALSE, data |-> <<>>]
OldFile == [exists |-> TRUE, data |-> <<"(output of an earlier run)">>]
PreviousOutputs == {NoFile, OldFile}

\* what a letter file may hold
DriverContents ==
    {<<"w", "\n">>,
     TERM \o <<"B", "}", "x", "\n">> \o TERM \o <<"b", "}", "y", "\n">>}

\* all_terms[upper] = terms
SetKey(t, key, value) ==
    [u \in DOMAIN t \cup {key} |-> IF u = key THEN value ELSE t[u]]

\* if tot_terms == 0 then
NoTermsFoundNever(tot) == tot < 0

NoTermsFound(tot) == tot = 0

MainInit ==
    /\ pc = "loop" /\ idx = 1 /\ all_terms = EmptyTable /\ tot_terms = 0
    /\ console = <<>> /\ out_file \in PreviousOutputs /\ failed = FALSE
    /\ files_read = 0
    /\ html = <<>> /\ glossary = EmptyTable /\ gh_pc = "idle"
    /\ IdleConv /\ IdleParse /\ IdleNav

\* one iteration of the loop of main: read_file returns nil
LetterMissing ==
    /\ pc = "loop" /\ idx <= Len(LETTERS)
    /\ idx' = idx + 1
    /\ UNCHANGED <<pc, all_terms, tot_terms, console, out_file, failed, files_read,
                   conv_vars, parse_vars, render_vars, nav_vars>>

\* one iteration of the loop of main: read_file returns the content of the file
LetterRead ==
    /\ pc = "loop" /\ idx <= Len(LETTERS)
    /\ files_read < MaxFiles
    /\ \E c \in DriverContents : \E ts \in parse_terms_outcomes(c) :
          IF Len(ts) > 0
          THEN /\ all_terms' = SetKey(all_terms, Upper(LETTERS[idx]), ts)
               /\ tot_terms' = tot_terms + Len(ts)
          ELSE UNCHANGED <<all_terms, tot_terms>>
    /\ idx' = idx + 1
    /\ files_read' = files_read + 1
    /\ UNCHANGED <<pc, console, out_file, failed,
                   conv_vars, parse_vars, render_vars, nav_vars>>

\* after the loop: no term was found, print and return
ReportNoTerms ==
    /\ pc = "loop" /\ idx > Len(LETTERS)
    /\ NoTermsFound(tot_terms)
    /\ console' = Append(console, NO_TERMS)
    /\ pc' = "done"
    /\ UNCHANGED <<idx, all_terms, tot_terms, out_file, failed, files_read,
                   conv_vars, parse_vars, render_vars, nav_vars>>

\* after the loop: print, then generate_html(all_terms)
ReportAndRender ==
    /\ pc = "loop" /\ idx > Len(LETTERS)
    /\ ~NoTermsFound(tot_terms)
    /\ console' = Append(console, PARSING_DONE)
    /\ glossary' = all_terms
    /\ html' = html_table(all_terms)
    /\ gh_pc' = "done"
    /\ pc' = "write"
    /\ UNCHANGED <<idx, all_terms, tot_terms, out_file, failed, files_read,
                   conv_vars, parse_vars, nav_vars>>

\* write_file: io.open succeeds, the content replaces the file
WriteFile ==
    /\ pc = "write"
    /\ out_file' = [exists |-> TRUE, data |-> Flatten(html)]
    /\ pc' = "done"
    /\ UNCHANGED <<idx, all_terms, tot_terms, console, failed, files_read,
                   conv_vars, parse_vars, render_vars, nav_vars>>

\* write_file: io.open returns nil, error() ends the run
WriteFileError ==
    /\ pc = "write"
    /\ failed' = TRUE
    /\ pc' = "done"
    /\ UNCHANGED <<idx, all_terms, tot_terms, console, out_file, files_read,
                   conv_vars, parse_vars, render_vars, nav_vars>>

MainNext ==
    \/ LetterMissing
    \/ LetterRead
    \/ ReportNoTerms
    \/ ReportAndRender
    \/ WriteFile
    \/ WriteFileError

Spec == MainInit /\ [][MainNext]_vars

-----------------------------------------------------------------------------
(* script.js                                                               *)
(*                                                                         *)
(* nav[i] is the target of the href of the i-th link of #nav-navigation;   *)
(* every element of Ids is the id of a section of the page.                *)

Ids == {"a", "b", "c"}

\* document.querySelector(`#nav-navigation a[href="#${id}"]`): the first match
LinksTo(links, id) == {i \in DOMAIN links : links[i] = id}

QuerySelector(links, id) ==
    IF LinksTo(links, id) = {} THEN {}
    ELSE {CHOOSE i \in LinksTo(links, id) : \A j \in LinksTo(links, id) : i <= j}

\* the click listener of link i
ClickedKeepsOthers(act, i) == act \cup {i}

Clicked(act, i) == {i}

\* the body of entries.forEach for one entry
Observed(links, act, entry) ==
    IF entry.isIntersecting THEN QuerySelector(links, entry.target) ELSE act

\* the observer callback: entries.forEach in order
RECURSIVE ObservedAll(_, _, _)
ObservedAll(links, act, entries) ==
    IF entries = <<>> THEN act
    ELSE ObservedAll(links, Observed(links, act, Head(entries)), Tail(entries))

Entries == [target : Ids, isIntersecting : BOOLEAN]

NavInit ==
    /\ nav \in SeqsUpTo(Ids, MaxLinks) /\ active = {} /\ last_event = <<"load">>
    /\ IdleConv /\ IdleParse /\ IdleRender /\ IdleMain

Click ==
    /\ \E i \in DOMAIN nav :
          /\ active' = Clicked(active, i)
          /\ last_event' = <<"click", i>>
    /\ UNCHANGED <<nav, conv_vars, parse_vars, render_vars, main_vars>>

Intersection ==
    /\ \E batch \in SeqsUpTo(Entries, MaxBatch) :
          /\ batch # <<>>
          /\ active' = ObservedAll(nav, active, batch)
          /\ last_event' = <<"intersection", {e \in Range(batch) : e.isIntersecting} # {}>>
    /\ UNCHANGED <<nav, conv_vars, parse_vars, render_vars, main_vars>>

NavNext == Click \/ Intersection

SpecNav == NavInit /\ [][NavNext]_vars

-----------------------------------------------------------------------------
(* Properties of main.                                                     *)

\* C1: in a run whose total number of terms is 0, no step opens or changes the
\* output file or raises an error, the run never reaches write_file, and when it
\* is over the console holds exactly the "no terms found" message.
C1_NoTermsNoWrite ==
    [][tot_terms' = 0 =>
          /\ out_file' = out_file
          /\ ~failed'
          /\ pc' # "write"
          /\ html' = <<>>
          /\ (idx > Len(LETTERS) => pc' = "done" /\ console' = <<NO_TERMS>>)]_vars

\* a run over letter files that exist but hold no entry has ended with the
\* message and the earlier output in place
C1_Witness ==
    /\ pc = "done" /\ tot_terms = 0 /\ files_read = MaxFiles
    /\ console = <<NO_TERMS>> /\ out_file = OldFile

\* C2: a finished run has reported "no terms found" and written nothing, or has
\* reported "parsing complete" and the output file holds the rendered page.
C2_TwoOutcomes ==
    pc = "done" =>
        \/ console = <<NO_TERMS>> /\ out_file \in PreviousOutputs
        \/ /\ console = <<PARSING_DONE>>
           /\ out_file = [exists |-> TRUE, data |-> generate_html(all_terms)]

-----------------------------------------------------------------------------
(* Properties of generate_html.                                            *)

LetterIndex(l) == CHOOSE i \in DOMAIN LETTERS : LETTERS[i] = l

\* the letters of the glossary that have at least one term
Populated(t) == {l \in Range(LETTERS) : Upper(l) \in DOMAIN t /\ Len(t[Upper(l)]) >= 1}

IsNavItem(chunk) == chunk[1] = LI_OPEN
IsSectionOpen(chunk) == chunk[1] = SECTION_OPEN
IsSectionClose(chunk) == chunk[1] = SECTION_CLOSE

NavItems(h) == SelectSeq(h, IsNavItem)
NavLetters(h) == {NavItems(h)[k][2] : k \in DOMAIN NavItems(h)}
SectionLetters(h) == {h[i][2] : i \in {j \in DOMAIN h : IsSectionOpen(h[j])}}

Indices(h) == [i \in 1..Len(h) |-> i]
OpensAt(h) == SelectSeq(Indices(h), LAMBDA i : IsSectionOpen(h[i]))
ClosesAt(h) == SelectSeq(Indices(h), LAMBDA i : IsSectionClose(h[i]))

\* C3: the navigation list has exactly one entry for each letter with at least one
\* term and none for any other letter, in a-z order, each linking to '#' + the
\* lowercase letter (and labelled with the uppercase letter).
C3_NavList ==
    gh_pc = "done" =>
        LET items == NavItems(html)
        IN  /\ \A l \in Range(LETTERS) :
                  Cardinality({k \in DOMAIN items : items[k][2] = l})
                      = IF l \in Populated(glossary) THEN 1 ELSE 0
            /\ \A k \in DOMAIN items :
                  /\ items[k][2] \in Range(LETTERS)
                  /\ items[k] = <<LI_OPEN, items[k][2], LI_MID, Upper(items[k][2]), LI_CLOSE>>
            /\ \A j, k \in DOMAIN items :
                  j < k => LetterIndex(items[j][2]) < LetterIndex(items[k][2])

C3_Witness ==
    /\ gh_pc = "done"
    /\ Populated(glossary) = {"b", "y"}
    /\ Len(NavItems(html)) = 2

\* C4: there are exactly 26 sections, one per letter in a-z order with the
\* lowercase letter as id; the section of a letter with no bucket holds only its
\* heading, the section of a letter with a bucket holds the heading and a
\* definition list with the converted term/definition pairs in bucket order.
C4_Sections ==
    gh_pc = "done" =>
        LET opens == OpensAt(html)
            closes == ClosesAt(html)
        IN  /\ Len(opens) = Len(LETTERS)
            /\ Len(closes) = Len(LETTERS)
            /\ \A k \in DOMAIN LETTERS :
                  /\ opens[k] < closes[k]
                  /\ k < Len(LETTERS) => closes[k] < opens[k + 1]
                  /\ html[opens[k]] = <<SECTION_OPEN, LETTERS[k], SECTION_ID_END>>
                  /\ LET body == SubSeq(html, opens[k] + 1, closes[k] - 1)
                         U == UPPERS[k]
                     IN  /\ body[1] = <<H2_OPEN, U, H2_CLOSE>>
                         /\ U \notin DOMAIN glossary => Len(body) = 1
                         /\ U \in DOMAIN glossary =>
                              LET bucket == glossary[U]
                              IN  /\ Len(body) = 3 + 2 * Len(bucket)
                                  /\ body[2] = <<DL_OPEN>>
                                  /\ body[Len(body)] = <<DL_CLOSE>>
                                  /\ \A j \in DOMAIN bucket :
                                        /\ body[2 * j + 1] = <<DT_OPEN>>
                                              \o convert_latex_to_html(bucket[j].term)
                                              \o <<DT_CLOSE>>
                                        /\ body[2 * j + 2] = <<DD_OPEN>>
                                              \o convert_latex_to_html(bucket[j].definition)
                                              \o <<DD_CLOSE>>

C4_Witness ==
    /\ gh_pc = "done"
    /\ DOMAIN glossary = {"C"}
    /\ glossary["C"] = <<EntryA, EntryB>>
    /\ \E i \in DOMAIN html : html[i] = <<DL_CLOSE>>

\* C5 as stated: the navigation list and the rendered sections both contain only
\* letters that have terms in the glossary.
C5_OnlyPopulatedLetters ==
    gh_pc = "done" =>
        /\ NavLetters(html) \subseteq Populated(glossary)
        /\ SectionLetters(html) \subseteq Populated(glossary)

\* C5 amended: the navigation list contains only letters that have terms in the
\* glossary; the rendered sections cover every letter a-z, so a letter with zero
\* terms is skipped in the navigation list but not in the sections.
C5_NavOnlyPopulated ==
    gh_pc = "done" =>
        /\ NavLetters(html) \subseteq Populated(glossary)
        /\ SectionLetters(html) = Range(LETTERS)

C5_Witness ==
    /\ gh_pc = "done"
    /\ Populated(glossary) = {"a"}
    /\ NavLetters(html) = {"a"}
    /\ "b" \in SectionLetters(html)

-----------------------------------------------------------------------------
(* Properties of parse_terms.                                              *)

LowerLeq(x, y) == ~StrLess(Lower(y.term), Lower(x.term))

SameIgnoringCase(x, y) == Lower(x.term) = Lower(y.term)

Occurrences(s, e) == Cardinality({i \in DOMAIN s : s[i] = e})

SortedIgnoringCase(s) == \A i \in 1..(Len(s) - 1) : LowerLeq(s[i], s[i + 1])

\* entries with the same term ignoring case are in the order of the source text
KeepsSourceOrder(sorted, source) ==
    \A e \in Range(source) :
        SelectSeq(sorted, LAMBDA x : SameIgnoringCase(x, e))
            = SelectSeq(source, LAMBDA x : SameIgnoringCase(x, e))

\* C6 as stated: the returned sequence is ordered by term ignoring case, and
\* entries whose terms are equal ignoring case keep their source order.
C6_SortedAndStable ==
    pt_pc = "done" =>
        /\ SortedIgnoringCase(terms)
        /\ KeepsSourceOrder(terms, CollectTerms(content, 1))

\* C6 amended: the returned sequence is ordered by term ignoring case and holds
\* the extracted entries, each as often as it was extracted; the relative order
\* of entries whose terms are equal ignoring case is not determined.
C6_Sorted ==
    pt_pc = "done" =>
        /\ SortedIgnoringCase(terms)
        /\ Len(terms) = Len(CollectTerms(content, 1))
        /\ \A e \in Range(terms) \cup Range(CollectTerms(content, 1)) :
              Occurrences(terms, e) = Occurrences(CollectTerms(content, 1), e)

\* the sort moved "a" in front of a "B" that preceded it in the text
C6_Witness ==
    /\ pt_pc = "done"
    /\ Len(terms) = 3
    /\ CollectTerms(content, 1)[1].term = <<"B">>
    /\ CollectTerms(content, 1)[3].term = <<"a">>
    /\ terms[1].term = <<"a">>

\* x is y without its leading and trailing whitespace
IsTrimOf(x, y) ==
    \E i \in 1..(Len(y) + 1) : \E j \in 0..Len(y) :
        /\ x = SubSeq(y, i, j)
        /\ \A k \in 1..(i - 1) : y[k] \in Space
        /\ \A k \in (j + 1)..Len(y) : y[k] \in Space
        /\ x # <<>> => x[1] \notin Space /\ x[Len(x)] \notin Space

Blank(y) == \A k \in DOMAIN y : y[k] \in Space

\* the captures of the successive matches of the pattern, as gmatch yields them
RECURSIVE RawMatches(_, _)
RawMatches(t, s) ==
    IF s > Len(t) THEN <<>>
    ELSE LET m == TermMatch(t, s)
         IN  IF m.len > 0
             THEN <<m>> \o RawMatches(t, s + m.len)
             ELSE RawMatches(t, s + 1)

IsKept(m) == ~Blank(m.term) /\ ~Blank(m.definition)

\* C7: the result holds one entry for each matched pair whose term and definition
\* are both non-empty after trimming (repeated pairs are separate entries), and
\* no entry has an empty term or definition or leading/trailing whitespace.
C7_EntriesTrimmedNonEmpty ==
    pt_pc = "done" =>
        LET kept == SelectSeq(RawMatches(content, 1), IsKept)
        IN  /\ \A i \in DOMAIN terms :
                  /\ terms[i].term # <<>> /\ terms[i].definition # <<>>
                  /\ terms[i].term[1] \notin Space
                  /\ terms[i].term[Len(terms[i].term)] \notin Space
                  /\ terms[i].definition[1] \notin Space
                  /\ terms[i].definition[Len(terms[i].definition)] \notin Space
            /\ Len(terms) = Len(kept)
            /\ \E p \in Bijections(Len(kept)) :
                  \A i \in DOMAIN terms :
                      /\ IsTrimOf(terms[i].term, kept[p[i]].term)
                      /\ IsTrimOf(terms[i].definition, kept[p[i]].definition)

\* a repeated pair is kept twice and a match with a blank capture is dropped
C7_Witness ==
    /\ pt_pc = "done"
    /\ Len(terms) = 2
    /\ terms[1] = terms[2]
    /\ Len(RawMatches(content, 1)) = 3
    /\ \E m \in Range(RawMatches(content, 1)) : m.term # Trim(m.term)

\* the term macros of a text: where "\\term{" starts and where its brace closes
Macros(t) ==
    {m \in [open : DOMAIN t, close : DOMAIN t] :
        /\ StartsWith(t, m.open, TERM)
        /\ m.close = m.open + Len(TERM) + RunLenNot(t, m.open + Len(TERM), {"}"})
        /\ m.close > m.open + Len(TERM)
        /\ t[m.close] = "}"}

MacroTerm(t, m) == SubSeq(t, m.open + Len(TERM), m.close - 1)

RestOfLine(t, m) == SubSeq(t, m.close + 1, m.close + RunLenNot(t, m.close + 1, {"\n"}))

\* C9: the definition of every extracted pair is the trimmed remainder of the
\* line on which the closing brace of its term macro stands.
C9_DefinitionIsRestOfLine ==
    pt_pc = "done" =>
        \A i \in DOMAIN terms :
            \E m \in Macros(content) :
                /\ IsTrimOf(terms[i].term, MacroTerm(content, m))
                /\ IsTrimOf(terms[i].definition, RestOfLine(content, m))

-----------------------------------------------------------------------------
(* Properties of convert_latex_to_html.                                    *)

\* number of macro occurrences that step 1 expands
RECURSIVE NumExpanded(_, _)
NumExpanded(t, s) ==
    IF s > Len(t) THEN 0
    ELSE LET m == TextitMatch(t, s)
         IN  IF m > 0 THEN 1 + NumExpanded(t, s + m) ELSE NumExpanded(t, s + 1)

\* C8: the only literal '<' and '>' of the output are those of the <i> and </i>
\* tags that the macro expansion inserted (one of each per tag, two tags per
\* expanded macro); every other one is escaped.
C8_OnlyTagBrackets ==
    cv_pc = "done" =>
        /\ Count(cv_out, "<") = 2 * NumExpanded(cv_text, 1)
        /\ Count(cv_out, ">") = 2 * NumExpanded(cv_text, 1)

-----------------------------------------------------------------------------
(* Properties of script.js.                                                *)

\* C10: starting with no active link, after any sequence of clicks and observer
\* callbacks at most one link is active, and after a click exactly the clicked
\* link is.
C10_AtMostOneActive ==
    /\ Cardinality(active) <= 1
    /\ active \subseteq DOMAIN nav
    /\ last_event[1] = "click" => active = {last_event[2]}

\* the third of three links was clicked and is the only active one
C10_Witness ==
    /\ Len(nav) = 3
    /\ last_event = <<"click", 3>>
    /\ active = {3}

=============================================================================
